---------------------------- MODULE Spec2Model ----------------------------
(***************************************************************************)
(* State-machine model of the FPGA project extension:                      *)
(*   - ProjectManager / ConstraintsProvider (project store and .prjinfo),  *)
(*   - ModuleDataService / ModuleListProvider (module cache, top module),  *)
(*   - viewer.js (block diagram layout, drag and drop, wires).             *)
(* Paths are sequences of tokens so that String.startsWith is a sequence   *)
(* prefix test: "/w/p" is a prefix of "/w/pq/b.v".                         *)
(***************************************************************************)
EXTENDS Integers, Sequences, FiniteSets, TLC

VARIABLES
    \* ---- ProjectManager (projectManager.ts)
    workspaceConfig,        \* <<>> (null) or <<[workspaceRoot, projects]>>
    currentActiveProject,   \* 0 (null) or the index of a project of workspaceConfig
    ewsFile,                \* <<>> (never written) or <<projects as last written>>
    watchers,               \* project roots that have a live FileSystemWatcher
    watcher,                \* this.watcher: <<>> or <<root of the watcher it holds>>
    fileWatchers,           \* FileBrowserProvider: the watchers created, not disposed
    fileWatcher,            \* FileBrowserProvider.fileWatcher: 0 or the one it holds
    refreshTimeout,         \* FileBrowserProvider.refreshTimeout: 0 or a timer handle
    timers,                 \* the handles of the timers that are pending
    burst,                  \* file events and timer refreshes of the current burst
    \* ---- the file system
    fs,                     \* the HDL source files that exist
    disk,                   \* content of every project info file
    \* ---- ConstraintsProvider (constraintsManager.ts)
    constraints,            \* the provider's in-memory list
    \* ---- ModuleDataService (viewer.ts)
    topModule,              \* the ModuleListTreeItem getTopModule() returns
    moduleHierarchy,        \* the parsed result object, keys in insertion order
    moduleList,             \* [{moduleName, path}]
    inflight,               \* cp.exec calls whose callback has not run yet
    \* ---- the diagram webview (viewer/web/viewer.js)
    modulesData,            \* the modules of the last render
    style,                  \* element -> [left, top] of each .module-block
    blocks,                 \* [{x, y, element, height}] for overlap checking
    draggingBlock,          \* 0 (null) or the element being dragged
    isDragging,
    originalPosition,       \* position of the block when the drag started
    modulePositions,        \* instance_name -> {x, y}
    connectionCanvas,       \* what drawWires has drawn: [paths, markers]
    \* ---- history (for stating the claims)
    last,                   \* the last handler that ran, with what it was given
    lastGood                \* <<>> or <<result of the last callback that succeeded>>

timerVars == <<refreshTimeout, timers, burst>>
watcherVars == <<watchers, watcher, fileWatchers, fileWatcher, timerVars>>
storeVars == <<workspaceConfig, currentActiveProject, ewsFile, watcherVars, fs, disk,
               constraints>>
cacheVars == <<topModule, moduleHierarchy, moduleList, inflight>>
viewVars == <<modulesData, style, blocks, draggingBlock, isDragging, originalPosition,
              modulePositions, connectionCanvas>>

-----------------------------------------------------------------------------
(* Paths *)

Sep == <<"/">>

join(dir, name) == dir \o Sep \o name

StartsWith(s, p) == Len(p) <= Len(s) /\ SubSeq(s, 1, Len(p)) = p

\* a file lies in directory dir (what a RelativePattern(dir, '**/*') watches)
IsUnder(path, dir) == StartsWith(path, dir \o Sep)

WorkspaceRoot == <<"/", "w">>
RootW == WorkspaceRoot
RootP == join(WorkspaceRoot, <<"p">>)
RootPQ == join(WorkspaceRoot, <<"p", "q">>)
Roots == {RootW, RootP, RootPQ}

prjinfoOf(root) == join(root, <<".prjinfo">>)
InfoPaths == {prjinfoOf(r) : r \in Roots}

FileA == join(RootP, <<"a", ".v">>)
FileB == join(RootPQ, <<"b", ".sv">>)
FileD == join(join(WorkspaceRoot, <<"build">>), <<"d", ".vhd">>)
HDLFiles == {FileA, FileB, FileD}

\* path.relative(from, to) for the paths of the model
relative(from, to) ==
    IF IsUnder(to, from) THEN SubSeq(to, Len(from) + 2, Len(to))
    ELSE <<"..">> \o to

Range(s) == {s[i] : i \in 1..Len(s)}

\* Array.prototype.indexOf, 1-based; 0 when absent
indexOf(s, e) ==
    IF e \in Range(s) THEN CHOOSE i \in 1..Len(s) : s[i] = e /\ \A j \in 1..(i-1) : s[j] # e
    ELSE 0

\* Array.prototype.splice(index, 1)
splice1(s, i) == SubSeq(s, 1, i - 1) \o SubSeq(s, i + 1, Len(s))

-----------------------------------------------------------------------------
(* ProjectInfo objects and the JSON files that hold them *)

InfoKeys == {"projectRoot", "sourceFiles", "constraints", "topModule"}

\* keys: the properties the object has; a property it lacks reads as the
\* default held in its field
EmptyInfo == [keys |-> {}, projectRoot |-> <<>>, sourceFiles |-> <<>>,
              constraints |-> <<>>, topModule |-> ""]

Missing == [kind |-> "missing", obj |-> EmptyInfo]
Malformed == [kind |-> "malformed", obj |-> EmptyInfo]
Json(o) == [kind |-> "json", obj |-> o]

\* JSON.stringify drops the properties the object lacks
stringify(info) ==
    Json([keys |-> info.keys,
          projectRoot |-> IF "projectRoot" \in info.keys THEN info.projectRoot ELSE <<>>,
          sourceFiles |-> IF "sourceFiles" \in info.keys THEN info.sourceFiles ELSE <<>>,
          constraints |-> IF "constraints" \in info.keys THEN info.constraints ELSE <<>>,
          topModule |-> IF "topModule" \in info.keys THEN info.topModule ELSE ""])

-----------------------------------------------------------------------------
(* ProjectManager *)

excludeFolders == {<<"build">>}

Loaded == workspaceConfig # <<>>

Projects == IF Loaded THEN workspaceConfig[1].projects ELSE <<>>

withProjects(ps) == <<[workspaceConfig[1] EXCEPT !.projects = ps]>>

\* getActiveProject(): 0 stands for null
getActiveProject == currentActiveProject

neverExcluded(filePath) == FALSE

\* handleFileChange: relativeFilePath and the excluded-folder test
isExcluded(filePath) ==
    LET relativeFilePath == relative(WorkspaceRoot, filePath)
    IN  \E folder \in excludeFolders : StartsWith(relativeFilePath, folder)

firstProject(ps, filePath) == IF Len(ps) > 0 THEN 1 ELSE 0

\* handleFileChange: projects.find(project => project.projectRoot &&
\* filePath.startsWith(project.projectRoot)); 0 when none
selectedProject(ps, filePath) ==
    LET hit(i) == ps[i].projectRoot # <<>> /\ StartsWith(filePath, ps[i].projectRoot)
    IN  IF \E i \in 1..Len(ps) : hit(i)
        THEN CHOOSE i \in 1..Len(ps) : hit(i) /\ \A j \in 1..(i-1) : ~hit(j)
        ELSE 0

\* the sourceFiles list after a create or delete of filePath
changedSourceFiles(sourceFiles, filePath, changeType) ==
    IF changeType = "create"
    THEN IF filePath \in Range(sourceFiles) THEN sourceFiles
         ELSE Append(sourceFiles, filePath)
    ELSE IF changeType = "delete"
    THEN IF indexOf(sourceFiles, filePath) > 0
         THEN splice1(sourceFiles, indexOf(sourceFiles, filePath))
         ELSE sourceFiles
    ELSE sourceFiles

\* the info object of the selected project after the event
changedInfo(info, filePath, changeType) ==
    LET init == IF "sourceFiles" \in info.keys THEN info.sourceFiles ELSE <<>>
    IN  [info EXCEPT !.keys = @ \cup {"sourceFiles"},
                     !.sourceFiles = changedSourceFiles(init, filePath, changeType)]

\* handleFileChange(uri, changeType): the in-memory store and the info file
handleFileChange(filePath, changeType) ==
    LET sel == selectedProject(Projects, filePath)
    IN  IF isExcluded(filePath) \/ changeType = "update" \/ sel = 0
        THEN UNCHANGED <<workspaceConfig, disk>>
        ELSE LET info == changedInfo(Projects[sel].info, filePath, changeType)
             IN  /\ workspaceConfig' = withProjects([Projects EXCEPT ![sel].info = info])
                 /\ disk' = [disk EXCEPT ![Projects[sel].projectInfoPath] = stringify(info)]

\* a watcher callback (onDidCreate / onDidDelete / onDidChange) for a file that
\* some live watcher covers; the file system has already changed
FileEvent(filePath, changeType) ==
    /\ \E r \in watchers : IsUnder(filePath, r)
    /\ fs' = IF changeType = "create" THEN fs \cup {filePath}
             ELSE IF changeType = "delete" THEN fs \ {filePath}
             ELSE fs
    /\ changeType = "update" => filePath \in fs
    /\ handleFileChange(filePath, changeType)
    /\ last' = [op |-> "file", path |-> filePath, kind |-> changeType,
                pre |-> Projects, preDisk |-> disk,
                \* handleFileChange fires no event emitter
                fired |-> {}]
    /\ UNCHANGED lastGood
    /\ UNCHANGED viewVars
    /\ UNCHANGED <<currentActiveProject, ewsFile, watcherVars, constraints>>
    /\ UNCHANGED cacheVars

\* loadProjects: the first project on whose info file JSON.parse throws;
\* Len(ps) + 1 when none
firstMalformed(ps, dk) ==
    LET bad(i) == dk[ps[i].projectInfoPath].kind = "malformed"
    IN  IF \E i \in 1..Len(ps) : bad(i)
        THEN CHOOSE i \in 1..Len(ps) : bad(i) /\ \A j \in 1..(i-1) : ~bad(j)
        ELSE Len(ps) + 1

\* loadProjects: the projects after projects.forEach(project =>
\* this.loadProject(project)), which the first throw ends
loadedProjects(ps, dk) ==
    [i \in 1..Len(ps) |->
        IF i < firstMalformed(ps, dk) /\ dk[ps[i].projectInfoPath].kind = "json"
        THEN [ps[i] EXCEPT !.info = dk[ps[i].projectInfoPath].obj]
        ELSE ps[i]]

\* loadProjects: the second forEach leaves the last project flagged active in
\* currentActiveProject, and leaves it alone when none is flagged
lastFlagged(ps, cur) ==
    LET act == {i \in 1..Len(ps) : ps[i].active}
    IN  IF act = {} THEN cur ELSE CHOOSE i \in act : \A j \in act : j <= i

\* the projectManager.refreshProjects command: loadProjects(), then the tree
\* event, unless loadProject threw
refreshProjects ==
    LET threw == firstMalformed(Projects, disk) <= Len(Projects)
    IN  /\ IF ~Loaded THEN UNCHANGED <<workspaceConfig, currentActiveProject>>
           ELSE /\ workspaceConfig' = withProjects(loadedProjects(Projects, disk))
                /\ currentActiveProject' =
                        IF threw THEN currentActiveProject
                        ELSE lastFlagged(Projects, currentActiveProject)
        /\ last' = [op |-> "refreshProjects", pre |-> Projects, preDisk |-> disk,
                    cur |-> currentActiveProject, threw |-> Loaded /\ threw,
                    warned |-> {i \in 1..Len(Projects) :
                                   /\ i < firstMalformed(Projects, disk)
                                   /\ disk[Projects[i].projectInfoPath].kind = "missing"},
                    fired |-> IF Loaded /\ threw THEN {}
                              ELSE {"ProjectManager.onDidChangeTreeData"}]
        /\ UNCHANGED lastGood
        /\ UNCHANGED viewVars
        /\ UNCHANGED <<ewsFile, watcherVars, fs, disk, constraints>>
        /\ UNCHANGED cacheVars

\* what a project info file can hold after it was edited or deleted outside
\* the extension
EditedContents(p) ==
    {Missing, Malformed,
     Json([EmptyInfo EXCEPT !.keys = {"projectRoot", "topModule"},
                            !.projectRoot = CHOOSE r \in Roots : p = prjinfoOf(r),
                            !.topModule = "alu"])}

\* an edit of a project info file outside the extension
externalEdit(p, content) ==
    /\ disk[p] # content
    /\ disk' = [disk EXCEPT ![p] = content]
    /\ last' = [op |-> "externalEdit", path |-> p]
    /\ UNCHANGED lastGood
    /\ UNCHANGED viewVars
    /\ UNCHANGED <<workspaceConfig, currentActiveProject, ewsFile, watcherVars, fs,
                   constraints>>
    /\ UNCHANGED cacheVars

-----------------------------------------------------------------------------
(* FileBrowserProvider *)

\* getChildren(): projectConfig.projectRoot || workspaceConfig.workspaceRoot
rootNamedBy(f) ==
    IF "projectRoot" \in f.obj.keys /\ f.obj.projectRoot # <<>> THEN f.obj.projectRoot
    ELSE WorkspaceRoot

\* getChildren(): the first project whose info file readFileSync or JSON.parse
\* throws on; Len(ps) + 1 when none
firstUnreadable(ps, dk) ==
    LET bad(i) == dk[ps[i].projectInfoPath].kind # "json"
    IN  IF \E i \in 1..Len(ps) : bad(i)
        THEN CHOOSE i \in 1..Len(ps) : bad(i) /\ \A j \in 1..(i-1) : ~bad(j)
        ELSE Len(ps) + 1

\* getChildren() at the root level: the projects after its forEach
rootsReread(ps, dk) ==
    [i \in 1..Len(ps) |->
        IF i < firstUnreadable(ps, dk)
        THEN [ps[i] EXCEPT !.projectRoot = rootNamedBy(dk[ps[i].projectInfoPath])]
        ELSE ps[i]]

\* the project browser view asks for its root items
getChildren ==
    /\ IF Loaded THEN workspaceConfig' = withProjects(rootsReread(Projects, disk))
       ELSE UNCHANGED workspaceConfig
    /\ last' = [op |-> "getChildren", pre |-> Projects]
    /\ UNCHANGED lastGood
    /\ UNCHANGED viewVars
    /\ UNCHANGED <<currentActiveProject, ewsFile, watcherVars, fs, disk, constraints>>
    /\ UNCHANGED cacheVars

MaxWatchers == 4

\* onDidChangeWorkspaceFolders: initializeFileWatcher() disposes the watcher
\* this.fileWatcher holds and creates one on workspaceFolders[0]; refresh()
onWorkspaceFoldersChanged ==
    /\ fileWatcher < MaxWatchers
    /\ fileWatchers' = (fileWatchers \ {fileWatcher}) \cup {fileWatcher + 1}
    /\ fileWatcher' = fileWatcher + 1
    /\ last' = [op |-> "foldersChanged", preWatchers |-> fileWatchers,
                fired |-> {"FileBrowserProvider.onDidChangeTreeData"}]
    /\ UNCHANGED lastGood
    /\ UNCHANGED viewVars
    /\ UNCHANGED <<workspaceConfig, currentActiveProject, ewsFile, watchers, watcher, fs,
                   disk, constraints, timerVars>>
    /\ UNCHANGED cacheVars

MaxTimers == 3

clearNothing(ts, handle) == ts

\* clearTimeout(handle): the timer is no longer pending; nothing happens when
\* it has already run
clearTimeout(ts, handle) == ts \ {handle}

\* onFileChanged(uri), the listener of the three events of this.fileWatcher;
\* setTimeout returns a handle that was never used before
onFileChanged ==
    /\ fileWatchers # {}
    /\ refreshTimeout < MaxTimers
    /\ LET pending == IF refreshTimeout # 0 THEN clearTimeout(timers, refreshTimeout)
                      ELSE timers
           handle == refreshTimeout + 1
       IN  /\ timers' = pending \cup {handle}
           /\ refreshTimeout' = handle
    /\ burst' = IF timers # {} THEN [burst EXCEPT !.events = @ + 1]
                ELSE [events |-> 1, refreshes |-> 0]
    /\ last' = [op |-> "fileChanged", fired |-> {}]
    /\ UNCHANGED lastGood
    /\ UNCHANGED viewVars
    /\ UNCHANGED <<workspaceConfig, currentActiveProject, ewsFile, watchers, watcher,
                   fileWatchers, fileWatcher, fs, disk, constraints>>
    /\ UNCHANGED cacheVars

\* the callback of setTimeout(() => this.refresh(), 300), 300 ms after the
\* call that returned handle, unless it was cleared
refreshTimeoutExpires(handle) ==
    /\ handle \in timers
    /\ timers' = timers \ {handle}
    /\ burst' = [burst EXCEPT !.refreshes = @ + 1]
    /\ last' = [op |-> "refreshTimeout", handle |-> handle,
                fired |-> {"FileBrowserProvider.onDidChangeTreeData"}]
    /\ UNCHANGED refreshTimeout
    /\ UNCHANGED lastGood
    /\ UNCHANGED viewVars
    /\ UNCHANGED <<workspaceConfig, currentActiveProject, ewsFile, watchers, watcher,
                   fileWatchers, fileWatcher, fs, disk, constraints>>
    /\ UNCHANGED cacheVars

-----------------------------------------------------------------------------
(* ConstraintsProvider *)

\* loadConstraints: path.join(workspaceFolder, '.prjinfo')
prjInfoPath == prjinfoOf(WorkspaceRoot)

supportedExtensions == {".pcf", ".sdc"}

ExtTokens == {".v", ".sv", ".vhd", ".pcf", ".sdc", ".PCF", ".txt"}

\* path.extname
extname(path) == IF path # <<>> /\ path[Len(path)] \in ExtTokens THEN path[Len(path)] ELSE ""

toLowerCase(ext) == IF ext = ".PCF" THEN ".pcf" ELSE ext

ConstraintA == join(WorkspaceRoot, <<"k", ".pcf">>)
ConstraintB == join(RootP, <<"t", ".sdc">>)
NotAConstraint == join(WorkspaceRoot, <<"n", ".txt">>)
PickableFiles == {ConstraintA, ConstraintB, NotAConstraint}

\* the open dialog lets the user pick a file anywhere, also outside the
\* workspace folder
ConstraintOutside == <<"/", "x", "/", "o", ".sdc">>
PickableAnywhere == {ConstraintA, ConstraintOutside}

\* saveConstraints: {...prjInfo, constraints: this.constraints}
mergeConstraints(prjInfo, cs) ==
    [prjInfo EXCEPT !.keys = @ \cup {"constraints"}, !.constraints = cs]

\* saveConstraints(): JSON.parse throws on a malformed file and nothing is written
saveConstraints(cs) ==
    IF disk[prjInfoPath].kind = "malformed"
    THEN UNCHANGED disk
    ELSE disk' = [disk EXCEPT ![prjInfoPath] =
                    stringify(mergeConstraints(
                        IF disk[prjInfoPath].kind = "json" THEN disk[prjInfoPath].obj
                        ELSE EmptyInfo, cs))]

\* addConstraint() with the file the user picked in the open dialog
addConstraint(file) ==
    /\ IF toLowerCase(extname(file)) \in supportedExtensions /\ file \notin Range(constraints)
       THEN /\ constraints' = Append(constraints, file)
            /\ saveConstraints(Append(constraints, file))
       ELSE UNCHANGED <<constraints, disk>>
    /\ last' = [op |-> "addConstraint", path |-> file, kind |-> "", pre |-> Projects,
                preDisk |-> disk, preConstraints |-> constraints]
    /\ UNCHANGED lastGood
    /\ UNCHANGED viewVars
    /\ UNCHANGED <<workspaceConfig, currentActiveProject, ewsFile, watcherVars, fs>>
    /\ UNCHANGED cacheVars

\* removeConstraint(constraint): constraint.label is the listed path
removeConstraint(label) ==
    /\ IF indexOf(constraints, label) > 0
       THEN /\ constraints' = splice1(constraints, indexOf(constraints, label))
            /\ saveConstraints(splice1(constraints, indexOf(constraints, label)))
       ELSE UNCHANGED <<constraints, disk>>
    /\ last' = [op |-> "removeConstraint", path |-> label, kind |-> "", pre |-> Projects,
                preDisk |-> disk, preConstraints |-> constraints]
    /\ UNCHANGED lastGood
    /\ UNCHANGED viewVars
    /\ UNCHANGED <<workspaceConfig, currentActiveProject, ewsFile, watcherVars, fs>>
    /\ UNCHANGED cacheVars

-----------------------------------------------------------------------------
(* ModuleDataService and ModuleListProvider *)

MaxInFlight == 2

NotDefined == [moduleName |-> "NOT DEFINED", path |-> <<>>]

\* what the parser prints: text that is not JSON, or a JSON object given as its
\* entries in key order; hasPath is FALSE for an entry without a "path" property
Garbage == [json |-> FALSE, obj |-> <<>>]
JsonText(o) == [json |-> TRUE, obj |-> o]

Entry(k, hasPath, file, line) == [key |-> k, hasPath |-> hasPath, path |-> <<file, line>>]

ResultTop == <<Entry("top", TRUE, "top.v", "1"), Entry("alu", TRUE, "alu.v", "7")>>
ResultAlu == <<Entry("alu", TRUE, "alu.v", "7")>>
ResultNoPath == <<Entry("top", FALSE, "", "")>>

\* (err, stdout) pairs an exec callback can receive
ParserOutputs ==
    {[err |-> TRUE, stdout |-> Garbage],
     [err |-> FALSE, stdout |-> Garbage],
     [err |-> FALSE, stdout |-> JsonText(ResultTop)],
     [err |-> FALSE, stdout |-> JsonText(ResultAlu)],
     [err |-> FALSE, stdout |-> JsonText(ResultNoPath)]}

\* `${result[key].path[0]}:${result[key].path[1]}`
formatPath(path) == <<path[1], ":", path[2]>>

\* Object.keys(result).map(key => ({moduleName: key, path: ...})); it throws on
\* the first entry without a path
mapThrows(result) == \E i \in 1..Len(result) : ~result[i].hasPath

mapModuleList(result) ==
    [i \in 1..Len(result) |->
        [moduleName |-> result[i].key, path |-> formatPath(result[i].path)]]

\* ModuleListProvider.readTopModule(): the top module afterwards
readTopModule(cur, ps, dk, top) ==
    IF cur = 0 THEN top
    ELSE LET f == dk[ps[cur].projectInfoPath]
         IN  IF f.kind = "json"
             THEN [moduleName |-> IF "topModule" \in f.obj.keys THEN f.obj.topModule ELSE "",
                   path |-> <<>>]
             ELSE top

\* loadModules() up to cp.exec: the calls in flight afterwards
loadModules(cur, ps, calls) ==
    IF cur = 0 \/ ps[cur].projectRoot = <<>> THEN calls
    ELSE Append(calls, [prjInfoPath |-> prjinfoOf(ps[cur].projectRoot)])

\* loadModules(): the error message it shows, if any
loadModulesErrors(cur, ps) ==
    IF cur = 0 \/ ps[cur].projectRoot = <<>> THEN {"Invalid project info"} ELSE {}

\* ModuleListProvider.refresh(): readTopModule() and then the provider's own
\* tree event; JSON.parse throwing in readTopModule skips the event
refreshFired(cur, ps, dk) ==
    IF cur = 0 THEN {"ModuleListProvider.onDidChangeTreeData"}
    ELSE LET f == dk[ps[cur].projectInfoPath]
         IN  IF f.kind = "json"
             THEN {"onTopModuleChange", "ModuleListProvider.onDidChangeTreeData"}
             ELSE IF f.kind = "malformed" THEN {}
             ELSE {"ModuleListProvider.onDidChangeTreeData"}

\* readTopModule(): the error message it shows, if any
readTopModuleErrors(cur) == IF cur = 0 THEN {"No selected project!"} ELSE {}

\* the exec callback of call i, receiving out
execCallback(i, out) ==
    /\ i \in 1..Len(inflight)
    /\ inflight' = splice1(inflight, i)
    /\ IF out.err \/ ~out.stdout.json
       THEN UNCHANGED <<moduleHierarchy, moduleList, topModule>>
       ELSE /\ moduleHierarchy' = out.stdout.obj
            /\ IF mapThrows(out.stdout.obj)
               THEN UNCHANGED <<moduleList, topModule>>
               ELSE /\ moduleList' = mapModuleList(out.stdout.obj)
                    \* onDidUpdateModules -> ModuleListProvider.refresh()
                    /\ topModule' = readTopModule(currentActiveProject, Projects, disk,
                                                  topModule)
    /\ last' = [op |-> "callback", out |-> out, call |-> inflight[i],
                preHierarchy |-> moduleHierarchy, preList |-> moduleList,
                fired |-> IF out.err \/ ~out.stdout.json \/ mapThrows(out.stdout.obj)
                          THEN {}
                          ELSE {"onDidUpdateModules"} \cup
                               refreshFired(currentActiveProject, Projects, disk)]
    /\ lastGood' = IF ~out.err /\ out.stdout.json /\ ~mapThrows(out.stdout.obj)
                   THEN <<out.stdout.obj>> ELSE lastGood
    /\ UNCHANGED storeVars
    /\ UNCHANGED viewVars

\* onDidChangeTextDocument on an HDL source file
TextEdit(file) ==
    /\ \E ext \in {".v", ".vhd", ".sv"} : file[Len(file)] = ext
    /\ Len(inflight) < MaxInFlight
    /\ inflight' = loadModules(currentActiveProject, Projects, inflight)
    /\ last' = [op |-> "textEdit", path |-> file, pre |-> Projects,
                cur |-> currentActiveProject, loads |-> 1,
                started |-> Len(loadModules(currentActiveProject, Projects, inflight))
                            - Len(inflight),
                errors |-> loadModulesErrors(currentActiveProject, Projects),
                preHierarchy |-> moduleHierarchy, preList |-> moduleList]
    /\ UNCHANGED lastGood
    /\ UNCHANGED viewVars
    /\ UNCHANGED <<topModule, moduleHierarchy, moduleList>>
    /\ UNCHANGED storeVars

\* projects.find(p => p.name === item.label); 0 when none
findByName(ps, label) ==
    LET hit(i) == ps[i].name = label
    IN  IF \E i \in 1..Len(ps) : hit(i)
        THEN CHOOSE i \in 1..Len(ps) : hit(i) /\ \A j \in 1..(i-1) : ~hit(j)
        ELSE 0

toggledKeepingOthers(ps, idx, state) ==
    [i \in 1..Len(ps) |-> IF i = idx THEN [ps[i] EXCEPT !.active = state] ELSE ps[i]]

\* toggleProjectStatus: the active flags after project idx is set to state
toggledProjects(ps, idx, state) ==
    [i \in 1..Len(ps) |->
        IF i = idx THEN [ps[i] EXCEPT !.active = state]
        ELSE IF state THEN [ps[i] EXCEPT !.active = FALSE]
        ELSE ps[i]]

\* projectManager.enableProject / disableProject
toggleProjectStatus(label, state) ==
    LET ps == Projects
        idx == findByName(ps, label)
        toggled == toggledProjects(ps, idx, state)
    IN  /\ state => Len(inflight) < MaxInFlight
        /\ IF ~Loaded \/ idx = 0
           THEN UNCHANGED <<workspaceConfig, currentActiveProject, ewsFile, inflight,
                            topModule>>
           ELSE /\ workspaceConfig' = withProjects(toggled)
                /\ IF state
                   THEN \* this._onDidUpdateProject.fire(): loadModules(), then
                        \* ModuleListProvider.refresh()
                        /\ currentActiveProject' = idx
                        /\ inflight' = loadModules(idx, toggled, inflight)
                        /\ topModule' = readTopModule(idx, toggled, disk, topModule)
                   ELSE UNCHANGED <<currentActiveProject, inflight, topModule>>
                \* saveWorkspaceConfig()
                /\ ewsFile' = withProjects(toggled)
        /\ last' = [op |-> "toggle", label |-> label, state |-> state, pre |-> Projects,
                    preEws |-> ewsFile, loaded |-> Loaded,
                    \* onDidUpdateProject has two listeners: loadModules() and
                    \* ModuleListProvider.refresh(); this.refresh() ends the call
                    fired |-> IF ~Loaded \/ idx = 0 THEN {}
                              ELSE {"ProjectManager.onDidChangeTreeData"} \cup
                                   (IF state
                                    THEN {"onDidUpdateProject"} \cup
                                         refreshFired(idx, toggled, disk)
                                    ELSE {}),
                    loads |-> IF Loaded /\ idx # 0 /\ state THEN 1 ELSE 0,
                    errors |-> IF ~Loaded THEN {"Workspace configuration not loaded."}
                               ELSE IF idx # 0 /\ state
                               THEN loadModulesErrors(idx, toggled)
                               ELSE {}]
        /\ UNCHANGED lastGood
        /\ UNCHANGED viewVars
        /\ UNCHANGED <<watcherVars, fs, disk, constraints, moduleHierarchy, moduleList>>

onlyTopModule(obj, name) == [EmptyInfo EXCEPT !.keys = {"topModule"}, !.topModule = name]

\* setAsTop: content = JSON.parse(info); content.topModule = item.moduleName
withTopModule(obj, name) ==
    [obj EXCEPT !.keys = @ \cup {"topModule"}, !.topModule = name]

\* moduleListProvider.setAsTop: setAsTop(item); this.refresh()
setAsTop(item) ==
    LET cur == getActiveProject
        f == IF cur = 0 THEN Missing ELSE disk[Projects[cur].projectInfoPath]
    IN  /\ IF cur # 0 /\ f.kind = "json"
           THEN LET content == withTopModule(f.obj, item.moduleName)
                    ps == [Projects EXCEPT ![cur].info = content]
                    dk == [disk EXCEPT ![Projects[cur].projectInfoPath] = stringify(content)]
                IN  /\ workspaceConfig' = withProjects(ps)
                    /\ disk' = dk
                    /\ topModule' = readTopModule(cur, ps, dk, item)
           ELSE /\ topModule' = item
                /\ UNCHANGED <<workspaceConfig, disk>>
        /\ last' = [op |-> "setAsTop", item |-> item, pre |-> Projects, preDisk |-> disk,
                    cur |-> cur, preTop |-> topModule, preInflight |-> inflight,
                    \* setTopModule(item) comes first; JSON.parse throwing in
                    \* setAsTop skips this.refresh()
                    fired |-> {"onTopModuleChange"} \cup
                              (IF cur # 0 /\ f.kind = "malformed" THEN {}
                               ELSE refreshFired(cur, Projects, disk')),
                    errors |-> readTopModuleErrors(cur)]
        /\ UNCHANGED lastGood
        /\ UNCHANGED viewVars
        /\ UNCHANGED <<currentActiveProject, ewsFile, watcherVars, fs, constraints,
                       moduleHierarchy, moduleList, inflight>>

\* the items of the module list view: the top item and one item per module
TreeItems == {topModule} \cup Range(moduleList)

-----------------------------------------------------------------------------
(* The diagram webview (viewer/web/viewer.js).  A port string is a sequence of
   tokens: names, "(", ")" and " " (white space). *)

gridSize == 100
blockWidth == 250
portHeight == 30
portMargin == 10
spacing == 50
minBlockHeight == 150

\* canvas.clientWidth, canvas.clientHeight: the size of the webview panel
clientWidth == 700
clientHeight == 600

unsnapped(value) == value

\* Math.round(value / gridSize) * gridSize; Math.round rounds halves up
snapToGrid(value) == ((2 * value + gridSize) \div (2 * gridSize)) * gridSize

RECURSIVE trimStart(_)
trimStart(s) == IF s # <<>> /\ Head(s) = " " THEN trimStart(Tail(s)) ELSE s

RECURSIVE trimEnd(_)
trimEnd(s) ==
    IF s # <<>> /\ s[Len(s)] = " " THEN trimEnd(SubSeq(s, 1, Len(s) - 1)) ELSE s

trim(s) == trimEnd(trimStart(s))

\* the first ")" of s at or after position i, or 0
RECURSIVE closing(_, _)
closing(s, i) ==
    IF i > Len(s) THEN 0 ELSE IF s[i] = ")" THEN i ELSE closing(s, i + 1)

\* port.match(/\(([^)]+)\)/), tried at each "(" from the left: <<>> (no match)
\* or <<the captured group>>
RECURSIVE matchWire(_, _)
matchWire(port, i) ==
    IF i > Len(port) THEN <<>>
    ELSE IF port[i] = "(" /\ closing(port, i + 1) > i + 1
         THEN <<SubSeq(port, i + 1, closing(port, i + 1) - 1)>>
         ELSE matchWire(port, i + 1)

getWireName(port) ==
    LET match == matchWire(port, 1)
    IN  IF match # <<>> THEN trim(match[1]) ELSE <<>>

\* the first "(" of s at or after position i, or 0
RECURSIVE opening(_, _)
opening(s, i) ==
    IF i > Len(s) THEN 0 ELSE IF s[i] = "(" THEN i ELSE opening(s, i + 1)

\* port.match(/^([^(]+)\(/)
getPortName(port) ==
    IF opening(port, 1) > 1 THEN trim(SubSeq(port, 1, opening(port, 1) - 1))
    ELSE trim(port)

\* 'port_name(wire_name)'
Port(portName, wireName) == <<portName, "(", wireName, ")">>

\* the module instances the host sends: a small one, a tall one that shares
\* wires with it, and one with a wire called like a property every object
\* inherits
U1 == [instance_name |-> "u1",
       ports |-> <<Port("clk", "clk"), Port("d", "bus")>>]
U2 == [instance_name |-> "u2",
       ports |-> <<Port("clk", "clk"), Port("irq", "irq"), <<"a", "(", " ", ")">>,
                   <<"nc", "(", ")">>, Port("ce", "clk"), <<"en">>>>]
U3 == [instance_name |-> "u3",
       ports |-> <<Port("clk", "clk"), Port("args", "constructor")>>]

RenderInputs == {<<U1>>, <<U3>>, <<U2, U1>>}

\* a list in which two instances carry the same instance_name
U1Again == [instance_name |-> "u1", ports |-> <<Port("q", "bus")>>]

RepeatedInputs == {<<U1>>, <<U1, U1Again>>}

\* the properties an object literal {} inherits from Object.prototype, among
\* the wire names above
ObjectPrototypeKeys == {<<"constructor">>}

\* Math.max(portHeight * n + portMargin * (n - 1), 150)
blockHeight(module) ==
    LET n == Len(module.ports)
        h == portHeight * n + portMargin * (n - 1)
    IN  IF h > minBlockHeight THEN h ELSE minBlockHeight

\* isOverlapping(x, y, excludeBlock) over the list bs; an entry pushed without
\* height has block.height undefined, and a comparison with NaN is false
isOverlapping(bs, x, y, excludeBlock) ==
    \E i \in 1..Len(bs) :
        /\ bs[i].element # excludeBlock
        /\ x < bs[i].x + blockWidth
        /\ x + blockWidth > bs[i].x
        /\ bs[i].height # <<>>
        /\ y < bs[i].y + bs[i].height[1]
        /\ y + bs[i].height[1] > bs[i].y

\* findFreePosition(startX, startY): the position returned, or threw when the
\* scan reaches the end of a row, where `block.height` names a variable that
\* is not in scope and the evaluation raises a ReferenceError
RECURSIVE findFreePosition(_, _, _, _)
findFreePosition(bs, dragging, x, y) ==
    IF ~isOverlapping(bs, x, y, dragging) THEN [threw |-> FALSE, x |-> x, y |-> y]
    ELSE IF (x + gridSize) + blockWidth > clientWidth
         THEN [threw |-> TRUE, x |-> 0, y |-> y + gridSize]
         ELSE findFreePosition(bs, dragging, x + gridSize, y)

\* arrangeModules(modules): a later module of the same instance_name replaces
\* the position of an earlier one
arrangeModules(modules) ==
    [name \in {modules[i].instance_name : i \in 1..Len(modules)} |->
        LET index == CHOOSE i \in 1..Len(modules) :
                        /\ modules[i].instance_name = name
                        /\ \A j \in 1..Len(modules) :
                                modules[j].instance_name = name => j <= i
        IN  [x |-> snapToGrid(spacing + (index - 1) * (blockWidth + spacing)),
             y |-> snapToGrid(spacing)]]

\* canvas.querySelector('.module-block[data-module="name"]'): the first block
querySelector(modules, name) ==
    CHOOSE i \in 1..Len(modules) :
        /\ modules[i].instance_name = name
        /\ \A j \in 1..(i - 1) : modules[j].instance_name # name

\* getPortAnchorPoint(block, portElement): x is the block's right edge; y is
\* fixed by the block's top and the port's place in the block
getPortAnchorPoint(st, block, port) ==
    [element |-> block, port |-> port, x |-> st[block].left + blockWidth,
     top |-> st[block].top]

\* the forEach over block.querySelectorAll('.port'), from port k on; wireMap is
\* [keys, anchors] in insertion order, threw once wireMap[wireName].push failed
RECURSIVE collectPorts(_, _, _, _, _)
collectPorts(modules, st, block, k, wireMap) ==
    IF wireMap.threw \/ k > Len(modules[block].ports) THEN wireMap
    ELSE LET wireName == getWireName(modules[block].ports[k])
             anchor == getPortAnchorPoint(st, block, k)
             own == indexOf(wireMap.keys, wireName)
         IN  IF wireName = <<>> THEN collectPorts(modules, st, block, k + 1, wireMap)
             ELSE IF own # 0
             THEN collectPorts(modules, st, block, k + 1,
                               [wireMap EXCEPT !.anchors[own] = Append(@, anchor)])
             ELSE IF wireName \in ObjectPrototypeKeys
             THEN [wireMap EXCEPT !.threw = TRUE]
             ELSE collectPorts(modules, st, block, k + 1,
                               [wireMap EXCEPT !.keys = Append(@, wireName),
                                               !.anchors = Append(@, <<anchor>>)])

\* the modulesData.forEach of drawWires, from module m on
RECURSIVE collectWires(_, _, _, _)
collectWires(modules, st, m, wireMap) ==
    IF wireMap.threw \/ m > Len(modules) THEN wireMap
    ELSE collectWires(modules, st, m + 1,
            collectPorts(modules, st, querySelector(modules, modules[m].instance_name),
                         1, wireMap))

RECURSIVE concat(_)
concat(seqs) == IF seqs = <<>> THEN <<>> ELSE Head(seqs) \o concat(Tail(seqs))

\* drawWires(): the canvas is cleared, then one path per consecutive pair of
\* anchors of a wire, then one circle per anchor; nothing once it threw
drawWires(modules, st) ==
    LET wireMap == collectWires(modules, st, 1,
                                [threw |-> FALSE, keys |-> <<>>, anchors |-> <<>>])
        pathsOf(anchors) == [i \in 1..(Len(anchors) - 1) |-> <<anchors[i], anchors[i + 1]>>]
    IN  [threw |-> wireMap.threw,
         paths |-> IF wireMap.threw THEN <<>>
                   ELSE concat([w \in 1..Len(wireMap.keys) |-> pathsOf(wireMap.anchors[w])]),
         markers |-> IF wireMap.threw THEN <<>> ELSE concat(wireMap.anchors)]

drawn(modules, st) ==
    [paths |-> drawWires(modules, st).paths, markers |-> drawWires(modules, st).markers]

\* the 'renderSingleModule' / 'renderSubmodules' message
renderModules(modules) ==
    LET arranged == arrangeModules(modules)
        placed == [i \in 1..Len(modules) |->
                      [left |-> arranged[modules[i].instance_name].x,
                       top |-> arranged[modules[i].instance_name].y]]
    IN  /\ modulesData' = modules
        /\ modulePositions' = arranged
        /\ style' = placed
        /\ blocks' = [i \in 1..Len(modules) |->
                         [x |-> placed[i].left, y |-> placed[i].top, element |-> i,
                          height |-> <<blockHeight(modules[i])>>]]
        /\ draggingBlock' = 0
        /\ connectionCanvas' = drawn(modules, placed)
        /\ last' = [op |-> "render"]
        /\ UNCHANGED <<isDragging, originalPosition>>
        /\ UNCHANGED <<storeVars, cacheVars, lastGood>>

\* blocks.filter(b => b.element !== block)
RECURSIVE filterOut(_, _)
filterOut(bs, block) ==
    IF bs = <<>> THEN <<>>
    ELSE IF Head(bs).element = block THEN filterOut(Tail(bs), block)
         ELSE <<Head(bs)>> \o filterOut(Tail(bs), block)

\* mousedown on a block (or on one of its ports)
mousedown(block, onPort) ==
    /\ block \in 1..Len(modulesData)
    /\ IF onPort
       THEN UNCHANGED <<draggingBlock, isDragging, originalPosition, blocks>>
       ELSE /\ draggingBlock' = block
            /\ isDragging' = TRUE
            /\ originalPosition' = [x |-> style[block].left, y |-> style[block].top]
            /\ blocks' = filterOut(blocks, block)
    /\ last' = [op |-> "mousedown", element |-> block, started |-> ~onPort,
                removed |-> {blocks[i] : i \in {j \in 1..Len(blocks) :
                                                   blocks[j].element = block}}]
    /\ UNCHANGED <<modulesData, style, modulePositions, connectionCanvas>>
    /\ UNCHANGED <<storeVars, cacheVars, lastGood>>

\* mousemove; newX, newY are initialBlockX + deltaX and initialBlockY + deltaY
\* before snapping, which the pointer can make any value
mousemove(newX, newY) ==
    /\ IF isDragging /\ draggingBlock # 0
       THEN style' = [style EXCEPT ![draggingBlock] =
                         [left |-> snapToGrid(newX), top |-> snapToGrid(newY)]]
       ELSE UNCHANGED style
    /\ last' = [op |-> "mousemove"]
    /\ UNCHANGED <<modulesData, blocks, draggingBlock, isDragging, originalPosition,
                   modulePositions, connectionCanvas>>
    /\ UNCHANGED <<storeVars, cacheVars, lastGood>>

\* mouseup.  A ReferenceError out of findFreePosition, or a TypeError out of
\* drawWires, ends the handler where it is raised.
mouseup ==
    /\ IF isDragging /\ draggingBlock # 0
       THEN LET newX == snapToGrid(style[draggingBlock].left)
                newY == snapToGrid(style[draggingBlock].top)
                moduleName == modulesData[draggingBlock].instance_name
                free == findFreePosition(blocks, draggingBlock, newX, newY)
                moved == [style EXCEPT ![draggingBlock] = [left |-> free.x, top |-> free.y]]
            IN  /\ isDragging' = FALSE
                /\ IF originalPosition.x # newX \/ originalPosition.y # newY
                   THEN IF free.threw
                        THEN UNCHANGED <<style, modulePositions, blocks, connectionCanvas,
                                         draggingBlock>>
                        ELSE /\ style' = moved
                             /\ modulePositions' =
                                    [modulePositions EXCEPT ![moduleName] =
                                        [x |-> free.x, y |-> free.y]]
                             /\ blocks' = Append(blocks,
                                    [x |-> free.x, y |-> free.y, element |-> draggingBlock,
                                     height |-> <<>>])
                             /\ connectionCanvas' = drawn(modulesData, moved)
                             /\ draggingBlock' =
                                    IF drawWires(modulesData, moved).threw
                                    THEN draggingBlock ELSE 0
                   ELSE /\ style' = [style EXCEPT ![draggingBlock] =
                                        [left |-> originalPosition.x,
                                         top |-> originalPosition.y]]
                        /\ modulePositions' =
                               [modulePositions EXCEPT ![moduleName] = originalPosition]
                        /\ blocks' = Append(blocks,
                               [x |-> originalPosition.x, y |-> originalPosition.y,
                                element |-> draggingBlock, height |-> <<>>])
                        /\ draggingBlock' = 0
                        /\ UNCHANGED connectionCanvas
                /\ last' = [op |-> "mouseup", element |-> draggingBlock,
                            requested |-> [x |-> newX, y |-> newY],
                            \* findFreePosition, when called, returned a position
                            returned |-> (originalPosition.x # newX \/
                                          originalPosition.y # newY) => ~free.threw]
       ELSE /\ UNCHANGED <<style, modulePositions, blocks, connectionCanvas,
                           draggingBlock, isDragging>>
            /\ last' = [op |-> "mouseup", element |-> 0]
    /\ UNCHANGED <<modulesData, originalPosition>>
    /\ UNCHANGED <<storeVars, cacheVars, lastGood>>

\* the script's variables when DOMContentLoaded has run
InitViewer ==
    /\ modulesData = <<>>
    /\ style = <<>>
    /\ blocks = <<>>
    /\ draggingBlock = 0
    /\ isDragging = FALSE
    /\ originalPosition = [x |-> 0, y |-> 0]
    /\ modulePositions = [name \in {} |-> [x |-> 0, y |-> 0]]
    /\ connectionCanvas = [paths |-> <<>>, markers |-> <<>>]

\* where the pointer takes a dragged block, before snapping: left of the
\* canvas, onto the second block of a render, and above it
PointerTargets == {<<-50, 100>>, <<400, 100>>, <<400, -100>>}

Render == \E modules \in RenderInputs : renderModules(modules)
RenderRepeated == \E modules \in RepeatedInputs : renderModules(modules)
MouseDown == \E block \in 1..Len(modulesData), onPort \in BOOLEAN : mousedown(block, onPort)
MouseMove == \E p \in PointerTargets : mousemove(p[1], p[2])
MouseUp == mouseup

-----------------------------------------------------------------------------
(* The state after activate(): ProjectManager.initialize, the providers'
   constructors *)

ProjectNames == <<"A", "B">>

\* where the two projects live: siblings whose names share a prefix, in both
\* orders, and a project at the workspace root with one below it
Layouts == {<<RootP, RootPQ>>, <<RootPQ, RootP>>, <<RootW, RootP>>}

RECURSIVE SetToSeq(_)
SetToSeq(S) ==
    IF S = {} THEN <<>>
    ELSE LET x == CHOOSE x \in S : TRUE IN <<x>> \o SetToSeq(S \ {x})

\* the HDL files of a project: those in its root that no excluded folder holds
FilesOf(root, files) == {f \in files : IsUnder(f, root) /\ ~isExcluded(f)}

InitialInfo(root, files) ==
    [EmptyInfo EXCEPT !.keys = {"projectRoot", "sourceFiles"},
                      !.projectRoot = root,
                      !.sourceFiles = SetToSeq(FilesOf(root, files))]

InitialProjects(layout, active, files) ==
    [i \in 1..2 |->
        [name |-> ProjectNames[i],
         projectInfoPath |-> prjinfoOf(layout[i]),
         projectRoot |-> layout[i],
         active |-> (i = active),
         info |-> InitialInfo(layout[i], files)]]

\* createNewPrjInfo of ConstraintsProvider, when no project owns <root>/.prjinfo
NewPrjInfo == [EmptyInfo EXCEPT !.keys = {"projectRoot", "constraints"},
                                !.projectRoot = WorkspaceRoot]

InitialDisk(layout, files) ==
    [p \in InfoPaths |->
        IF \E i \in 1..2 : p = prjinfoOf(layout[i])
        THEN stringify(InitialInfo(CHOOSE r \in Roots : p = prjinfoOf(r), files))
        ELSE IF p = prjInfoPath THEN stringify(NewPrjInfo)
        ELSE Missing]

\* the state after the constructors have run, given what the .ews file lists
\* (ps, with the info loadProject read) and what the info files hold (dk)
InitState(ps, dk, layout, active, files) ==
        /\ workspaceConfig = <<[workspaceRoot |-> WorkspaceRoot, projects |-> ps]>>
        /\ currentActiveProject = active
        /\ ewsFile = <<[workspaceRoot |-> WorkspaceRoot, projects |-> ps]>>
        \* ProjectManager.initializeFileWatcher(): one watcher per project root,
        \* this.watcher holds the one created last
        /\ watchers = {layout[1], layout[2]}
        /\ watcher = <<layout[2]>>
        \* FileBrowserProvider's constructor: initializeFileWatcher()
        /\ fileWatchers = {1}
        /\ fileWatcher = 1
        /\ refreshTimeout = 0
        /\ timers = {}
        /\ burst = [events |-> 0, refreshes |-> 0]
        /\ fs = files
        /\ disk = dk
        /\ constraints = <<>>
        /\ topModule = readTopModule(active, ps, dk, NotDefined)
        /\ moduleHierarchy = <<>>
        /\ moduleList = <<>>
        /\ inflight = loadModules(active, ps, <<>>)
        /\ InitViewer
        /\ last = [op |-> "init"]
        /\ lastGood = <<>>

InitWith(layout, active, files) ==
    InitState(InitialProjects(layout, active, files), InitialDisk(layout, files),
              layout, active, files)

\* the state after the constructors have run in a workspace folder without a
\* .ews file: workspaceConfig stays null and ProjectManager creates no watcher
InitNoConfig ==
    /\ workspaceConfig = <<>>
    /\ currentActiveProject = 0
    /\ ewsFile = <<>>
    /\ watchers = {}
    /\ watcher = <<>>
    /\ fileWatchers = {1}
    /\ fileWatcher = 1
    /\ refreshTimeout = 0
    /\ timers = {}
    /\ burst = [events |-> 0, refreshes |-> 0]
    /\ fs = {FileA}
    /\ disk = [p \in InfoPaths |-> IF p = prjInfoPath THEN stringify(NewPrjInfo) ELSE Missing]
    /\ constraints = <<>>
    /\ topModule = NotDefined
    /\ moduleHierarchy = <<>>
    /\ moduleList = <<>>
    /\ inflight = <<>>
    /\ InitViewer
    /\ last = [op |-> "init"]
    /\ lastGood = <<>>

\* the .ews file lists project A at /w/p while A's info file names /w/pq as its
\* projectRoot
InitMoved(active, files) ==
    LET layout == <<RootP, RootPQ>>
        info == [InitialInfo(RootP, files) EXCEPT !.projectRoot = RootPQ]
    IN  InitState([InitialProjects(layout, active, files) EXCEPT ![1].info = info],
                  [InitialDisk(layout, files) EXCEPT ![prjinfoOf(RootP)] = stringify(info)],
                  layout, active, files)

vars == <<workspaceConfig, currentActiveProject, ewsFile, watcherVars, fs, disk,
          constraints, topModule, moduleHierarchy, moduleList, inflight,
          modulesData, style, blocks, draggingBlock, isDragging, originalPosition,
          modulePositions, connectionCanvas, last, lastGood>>

Init ==
    \/ \E layout \in Layouts, active \in 0..2, files \in SUBSET HDLFiles :
            InitWith(layout, active, files)
    \/ \E active \in 0..2, files \in SUBSET HDLFiles : InitMoved(active, files)
    \/ InitNoConfig

FileEvents ==
    \E f \in HDLFiles, k \in {"create", "delete", "update"} : FileEvent(f, k)

ConstraintOps ==
    \/ \E f \in PickableFiles : addConstraint(f)
    \/ \E f \in PickableFiles : removeConstraint(f)

ConstraintOpsAnywhere ==
    \/ \E f \in PickableAnywhere : addConstraint(f)
    \/ \E f \in PickableAnywhere : removeConstraint(f)

SetAsTop == \E item \in TreeItems : setAsTop(item)

Toggle == \E n \in Range(ProjectNames), st \in BOOLEAN : toggleProjectStatus(n, st)

TextEdits == \E f \in HDLFiles : TextEdit(f)

Callbacks == \E i \in 1..MaxInFlight, out \in ParserOutputs : execCallback(i, out)

GetChildren == getChildren

RefreshProjects == refreshProjects

ExternalEdits ==
    \E i \in 1..Len(Projects) :
        \E content \in EditedContents(Projects[i].projectInfoPath) :
            externalEdit(Projects[i].projectInfoPath, content)

FoldersChanged == onWorkspaceFoldersChanged

FileChanged == onFileChanged

TimerExpires == \E handle \in 1..MaxTimers : refreshTimeoutExpires(handle)

NextViewer == Render \/ MouseDown \/ MouseMove \/ MouseUp

\* the webview alone
InitView == InitWith(<<RootW, RootP>>, 0, {})

SpecViewer == InitView /\ [][NextViewer]_vars

\* the webview when the host sends instance names more than once
NextArrange == RenderRepeated \/ MouseDown \/ MouseMove \/ MouseUp

SpecArrange == InitView /\ [][NextArrange]_vars

Next ==
    \/ NextViewer
    \/ RenderRepeated
    \/ FileEvents
    \/ ConstraintOps
    \/ SetAsTop
    \/ Toggle
    \/ TextEdits
    \/ Callbacks
    \/ GetChildren
    \/ FoldersChanged
    \/ RefreshProjects
    \/ ExternalEdits
    \/ FileChanged
    \/ TimerExpires

Spec == Init /\ [][Next]_vars

\* file watcher events alone, over two sibling project folders
InitFiles ==
    \E layout \in {<<RootP, RootPQ>>, <<RootPQ, RootP>>}, active \in 0..2,
       files \in SUBSET HDLFiles :
        InitWith(layout, active, files)

NextFiles == FileEvents

SpecFiles == InitFiles /\ [][NextFiles]_vars

\* file watcher events and the project browser view, over two sibling project
\* folders
InitRoots ==
    \/ InitFiles
    \/ \E active \in 0..2, files \in SUBSET HDLFiles : InitMoved(active, files)

NextRoots ==
    \/ FileEvents
    \/ GetChildren

SpecRoots == InitRoots /\ [][NextRoots]_vars

\* the watchers (ProjectManager's, created by its constructor, and
\* FileBrowserProvider's, re-created when the workspace folders change) and
\* the commands that enable and disable projects
NextWatchers ==
    \/ FileEvents
    \/ FoldersChanged
    \/ Toggle

SpecWatchers == InitFiles /\ [][NextWatchers]_vars

\* reloading the projects from info files that are edited outside the extension
InitReload ==
    \E active \in 0..2 : InitWith(<<RootP, RootPQ>>, active, {FileA})

NextReload ==
    \/ RefreshProjects
    \/ ExternalEdits
    \/ Toggle

SpecReload == InitReload /\ [][NextReload]_vars

\* what the source-file and constraint lists can come to hold
InitContents ==
    \E layout \in Layouts, active \in 0..2 : InitWith(layout, active, {})

NextContents ==
    \/ FileEvents
    \/ ConstraintOpsAnywhere

SpecContents == InitContents /\ [][NextContents]_vars

\* the project browser's watcher and its refresh timer, next to ProjectManager's
\* handling of the same file events; Node runs the callback of a timer that
\* has expired and was not cleared
InitDebounce ==
    \E active \in 0..1 : InitWith(<<RootP, RootPQ>>, active, {})

NextDebounce ==
    \/ FileChanged
    \/ TimerExpires
    \/ FoldersChanged
    \/ \E k \in {"create", "delete"} : FileEvent(FileA, k)

SpecDebounce == InitDebounce /\ [][NextDebounce]_vars /\ WF_vars(TimerExpires)

\* constraint commands over an info file that is edited outside the extension
InitMalformed == InitWith(<<RootW, RootP>>, 0, {})

NextMalformed ==
    \/ ConstraintOps
    \/ ExternalEdits

SpecMalformed == InitMalformed /\ [][NextMalformed]_vars

\* the operations that persist to project info files
NextStore ==
    \/ FileEvents
    \/ ConstraintOps
    \/ SetAsTop
    \/ Callbacks

\* a project at the workspace root shares <root>/.prjinfo with ConstraintsProvider
InitStore ==
    \E layout \in {<<RootW, RootP>>}, active \in 0..2 : InitWith(layout, active, {})

SpecStore == InitStore /\ [][NextStore]_vars

\* the module cache over a fixed file system
InitCache ==
    \E layout \in {<<RootW, RootP>>}, active \in 0..2 : InitWith(layout, active, {FileA})

NextCache ==
    \/ Toggle
    \/ TextEdits
    \/ Callbacks
    \/ SetAsTop

SpecCache == InitCache /\ [][NextCache]_vars

\* the module cache and the project commands, with and without a .ews file
InitAbort ==
    \/ InitCache
    \/ InitNoConfig

NextAbort == NextCache

SpecAbort == InitAbort /\ [][NextAbort]_vars

-----------------------------------------------------------------------------
(* Claims about the project store *)

\* C1: from a state where each project's sourceFiles is the set of existing HDL
\* files under its root, after any sequence of create and delete events on
\* non-excluded paths, each project's sourceFiles as a set is the set of such
\* paths that exist now; a create of a listed path and a delete of an unlisted
\* path leave the list as it was.
C1_SourceFilesTrackFileSystem ==
    /\ \A i \in 1..Len(Projects) :
          Range(Projects[i].info.sourceFiles) = FilesOf(Projects[i].projectRoot, fs)
    /\ last.op = "file" /\ last.kind \in {"create", "delete"} =>
          \A i \in 1..Len(Projects) :
              ((last.kind = "create") = (last.path \in Range(last.pre[i].info.sourceFiles)))
                  => Projects[i].info.sourceFiles = last.pre[i].info.sourceFiles

\* C2: enabling project B while another project A is active leaves B active,
\* every other project inactive, and the written workspace config file holding
\* exactly those flags.
C2_EnableSwitchesActiveProject ==
    (/\ last.op = "toggle" /\ last.state
     /\ findByName(last.pre, last.label) # 0
     /\ \E a \in 1..Len(last.pre) : last.pre[a].active /\ a # findByName(last.pre, last.label))
    =>  /\ \A i \in 1..Len(Projects) :
              Projects[i].active = (i = findByName(last.pre, last.label))
        /\ ewsFile # <<>>
        /\ \A i \in 1..Len(Projects) :
              ewsFile[1].projects[i].active = Projects[i].active

C2_Witness ==
    /\ last.op = "toggle" /\ last.state /\ last.label = "B"
    /\ last.pre[1].active
    /\ Projects[2].active /\ ~Projects[1].active

\* the property an operation updates
updatedKey(op) ==
    IF op = "file" THEN "sourceFiles"
    ELSE IF op = "setAsTop" THEN "topModule"
    ELSE "constraints"

sameField(a, b, k) == ((k \in a.keys) = (k \in b.keys)) /\ a[k] = b[k]

\* C3: every write of a project info file by a source-file event, a constraint
\* add/remove or a set-as-top is a merge: every persisted field other than the
\* one the operation updates is as it was in the file just before the write.
C3_WritesAreMerges ==
    last.op \in {"file", "addConstraint", "removeConstraint", "setAsTop"} =>
        \A p \in InfoPaths :
            (disk[p] # last.preDisk[p] /\ last.preDisk[p].kind = "json") =>
                /\ disk[p].kind = "json"
                /\ \A k \in InfoKeys \ {updatedKey(last.op)} :
                      sameField(disk[p].obj, last.preDisk[p].obj, k)

-----------------------------------------------------------------------------
(* Claims about the module cache *)

\* the topModule the active project's info file holds; "" when none is set
persistedTopModule ==
    IF currentActiveProject = 0 THEN ""
    ELSE LET f == disk[Projects[currentActiveProject].projectInfoPath]
         IN  IF f.kind = "json" /\ "topModule" \in f.obj.keys THEN f.obj.topModule ELSE ""

\* C4: after a reload whose parser output parses, getTopModule() names the
\* active project's persisted topModule if one is set, and otherwise the first
\* key of the parsed result.
C4_TopModuleAfterReload ==
    (/\ last.op = "callback" /\ ~last.out.err /\ last.out.stdout.json
     /\ last.out.stdout.obj # <<>>)
    =>  topModule.moduleName =
            IF persistedTopModule # "" THEN persistedTopModule
            ELSE last.out.stdout.obj[1].key

\* the callback ran to the end of its try block
callbackSucceeded ==
    /\ last.op = "callback" /\ ~last.out.err /\ last.out.stdout.json
    /\ ~mapThrows(last.out.stdout.obj)

-----------------------------------------------------------------------------
(* Claims about the diagram webview *)

\* two rectangles of width blockWidth intersect with positive area
rectanglesIntersect(ax, ay, ah, bx, by, bh) ==
    /\ ax < bx + blockWidth
    /\ ax + blockWidth > bx
    /\ ay < by + bh
    /\ ay + ah > by

heightOf(element) == blockHeight(modulesData[element])

CandidateXs == {0, 150, 350, 400, 650}
CandidateYs == {-100, 0, 100, 250}

\* C5: for every candidate position of a block and every overlap set,
\* isOverlapping is true exactly when the candidate's rectangle (250 wide, the
\* candidate's own height) intersects with positive area the rectangle of some
\* block of the set other than the excluded one.
C5_IsOverlappingIsIntersection ==
    \A c \in 1..Len(modulesData), x \in CandidateXs, y \in CandidateYs :
        isOverlapping(blocks, x, y, c) <=>
            \E i \in 1..Len(blocks) :
                /\ blocks[i].element # c
                /\ rectanglesIntersect(x, y, heightOf(c), blocks[i].x, blocks[i].y,
                                       heightOf(blocks[i].element))

\* the rectangle of element at (x, y) intersects another rendered block
overlapsAnother(element, x, y) ==
    \E o \in 1..Len(modulesData) :
        /\ o # element
        /\ rectanglesIntersect(x, y, heightOf(element), style[o].left, style[o].top,
                               heightOf(o))

MaxScan == 50

\* the first free cell in scan order: right by one grid unit, to x = 0 of the
\* next row when the block would exceed the canvas width
RECURSIVE firstFreeCell(_, _, _, _)
firstFreeCell(element, x, y, n) ==
    IF n = 0 \/ ~overlapsAnother(element, x, y) THEN [left |-> x, top |-> y]
    ELSE IF (x + gridSize) + blockWidth > clientWidth
         THEN firstFreeCell(element, 0,
                            IF (y + gridSize) + heightOf(element) > clientHeight
                            THEN 0 ELSE y + gridSize,
                            n - 1)
         ELSE firstFreeCell(element, x + gridSize, y, n - 1)

releasedElsewhere ==
    /\ last.op = "mouseup"
    /\ last.element # 0
    /\ last.requested # originalPosition

\* C6: on release at a snapped position other than the drag-start position,
\* the committed position is the first cell in scan order that overlaps no
\* other block; a free requested cell is committed unchanged.
C6_CommitsFirstFreeCell ==
    releasedElsewhere =>
        style[last.element] =
            firstFreeCell(last.element, last.requested.x, last.requested.y, MaxScan)

\* C7: after renders and completed drags, no two rendered blocks have
\* overlapping rectangles (current position, width 250, own height).
C7_NoTwoBlocksOverlap ==
    (last.op \in {"render", "mouseup"} /\ draggingBlock = 0) =>
        \A a \in 1..Len(modulesData) : ~overlapsAnother(a, style[a].left, style[a].top)

\* every port of the rendered modules, in input order
allPorts ==
    concat([m \in 1..Len(modulesData) |->
               [k \in 1..Len(modulesData[m].ports) |-> [element |-> m, port |-> k]]])

wireOf(a) == getWireName(modulesData[a.element].ports[a.port])

\* the ports that carry wireName, in input order
carrying(wireName) ==
    LET carries(a) == wireOf(a) = wireName
    IN  SelectSeq(allPorts, carries)

portOf(anchor) == [element |-> anchor.element, port |-> anchor.port]

\* C8: for every non-empty wire name carried by k ports, drawWires draws k
\* markers and, between consecutive anchors in input order, k-1 paths (none
\* when k = 1); a port with an empty wire name gets no marker and no path.
C8_MarkersAndPathsPerWire ==
    LET markers == [i \in 1..Len(connectionCanvas.markers) |->
                       portOf(connectionCanvas.markers[i])]
        paths == [i \in 1..Len(connectionCanvas.paths) |->
                     <<portOf(connectionCanvas.paths[i][1]),
                       portOf(connectionCanvas.paths[i][2])>>]
    IN  /\ \A i \in 1..Len(markers) : wireOf(markers[i]) # <<>>
        /\ \A i \in 1..Len(allPorts) :
              LET wireName == wireOf(allPorts[i])
                  ports == carrying(wireName)
                  ofWire(a) == wireOf(a) = wireName
                  pathOfWire(p) == wireOf(p[1]) = wireName
              IN  wireName # <<>> =>
                    /\ SelectSeq(markers, ofWire) = ports
                    /\ SelectSeq(paths, pathOfWire) =
                          [j \in 1..(Len(ports) - 1) |-> <<ports[j], ports[j + 1]>>]


-----------------------------------------------------------------------------
(* Claims about the module cache: the exec callback *)

\* C9: a parser callback replaces the cache all-or-nothing: either hierarchy
\* and list are both as before it, or both come from its output.
C9_CacheReplacedAllOrNothing ==
    last.op = "callback" =>
        \/ moduleHierarchy = last.preHierarchy /\ moduleList = last.preList
        \/ /\ callbackSucceeded
           /\ moduleHierarchy = last.out.stdout.obj
           /\ moduleList = mapModuleList(last.out.stdout.obj)

\* C10: with several loadModules calls in flight, completing in any order,
\* once all have completed the cache holds the result of the successful
\* callback that completed last, and a failed callback never overwrites it.
C10_LastCompletedWins ==
    /\ (inflight = <<>> /\ lastGood # <<>>) =>
          /\ moduleHierarchy = lastGood[1]
          /\ moduleList = mapModuleList(lastGood[1])
    /\ (last.op = "callback" /\ ~callbackSucceeded) =>
          /\ moduleHierarchy = last.preHierarchy
          /\ moduleList = last.preList

-----------------------------------------------------------------------------
(* Claims about set-as-top and reloads *)

\* the setAsTop that ran found an active project whose info file holds JSON
setAsTopPersists ==
    /\ last.op = "setAsTop" /\ last.cur # 0
    /\ last.preDisk[last.pre[last.cur].projectInfoPath].kind = "json"

\* C11: setAsTop(item), run with an active project whose info file holds JSON,
\* leaves that file holding item.moduleName as topModule and every other field
\* as it was, writes no other file, fires onTopModuleChange, does not fire
\* onDidUpdateModules and starts no parser.
C11_SetAsTopFrame ==
    setAsTopPersists =>
        LET p == last.pre[last.cur].projectInfoPath
        IN  /\ disk[p].kind = "json"
            /\ "topModule" \in disk[p].obj.keys
            /\ disk[p].obj.topModule = last.item.moduleName
            /\ \A k \in InfoKeys \ {"topModule"} :
                    sameField(disk[p].obj, last.preDisk[p].obj, k)
            /\ \A q \in InfoPaths \ {p} : disk[q] = last.preDisk[q]
            /\ "onTopModuleChange" \in last.fired
            /\ "onDidUpdateModules" \notin last.fired
            /\ inflight = last.preInflight

\* a module of the list is made top in a project that lists a source file
C11_Witness ==
    /\ setAsTopPersists
    /\ last.item.moduleName = "alu"
    /\ LET p == last.pre[last.cur].projectInfoPath
       IN  /\ last.preDisk[p].obj.sourceFiles # <<>>
           /\ disk[p] # last.preDisk[p]

\* no project of ps carries the active flag
noneActive(ps) == \A i \in 1..Len(ps) : ~ps[i].active

\* C12: a loadModules run by a text edit while no project is active reports an
\* error, starts no parser, and leaves moduleHierarchy and moduleList as they
\* were.
C12_NoActiveProjectNoReload ==
    (last.op = "textEdit" /\ noneActive(last.pre)) =>
        /\ last.errors # {}
        /\ last.started = 0
        /\ moduleHierarchy = last.preHierarchy
        /\ moduleList = last.preList

\* the projects of ps that carry the active flag
flagged(ps) == {i \in 1..Len(ps) : ps[i].active}

\* C13: a text edit of an HDL file invokes loadModules, and so does every
\* enable or disable that changes which project is active.
C13_ReloadOnEditAndProjectChange ==
    /\ last.op = "textEdit" => last.loads >= 1
    /\ (last.op = "toggle" /\ flagged(Projects) # flagged(last.pre)) => last.loads >= 1

-----------------------------------------------------------------------------
(* Claims about source-file events *)

\* the projects of ps whose projectRoot is a prefix of path
prefixed(ps, path) ==
    {i \in 1..Len(ps) : ps[i].projectRoot # <<>> /\ StartsWith(path, ps[i].projectRoot)}

\* the projects whose in-memory entry differs from what it was in pre
changedProjects(pre) == {i \in 1..Len(pre) : Projects[i] # pre[i]}

\* the info files whose content differs from what it was in preDisk
writtenFiles(preDisk) == {p \in InfoPaths : disk[p] # preDisk[p]}

C14_WitnessDropped ==
    /\ last.op = "file" /\ last.kind = "create"
    /\ prefixed(last.pre, last.path) = {}

\* path lies in one of the excluded folders of the workspace
underExcluded(path) ==
    \E folder \in excludeFolders : IsUnder(path, join(WorkspaceRoot, folder))

\* C15: a file event for a path in an excluded folder of the workspace, and
\* every update event, changes no project and writes no project info file.
C15_ExcludedAndUpdateIgnored ==
    (last.op = "file" /\ (underExcluded(last.path) \/ last.kind = "update")) =>
        /\ Projects = last.pre
        /\ disk = last.preDisk

\* a source file is created in build/, inside a watched project root
C15_Witness ==
    /\ last.op = "file" /\ last.kind = "create"
    /\ underExcluded(last.path)
    /\ last.path \in fs
    /\ prefixed(last.pre, last.path) # {}

-----------------------------------------------------------------------------
(* Claims about the file watchers *)

\* the project roots of the store
projectRoots == {Projects[i].projectRoot : i \in 1..Len(Projects)} \ {<<>>}

\* C16: every watcher that was created and not disposed is one its owner still
\* holds (ProjectManager.watcher, FileBrowserProvider.fileWatcher), a
\* re-registration leaves no watcher of an earlier registration live, and
\* there are no more live project watchers than project roots.
C16_LiveWatchersAreTracked ==
    /\ \A r \in watchers : watcher = <<r>>
    /\ fileWatchers \subseteq {fileWatcher}
    /\ last.op = "foldersChanged" => fileWatchers \cap last.preWatchers = {}
    /\ Cardinality(watchers) <= Cardinality(projectRoots)

\* the onDidChangeTreeData events of the tree data providers
treeRefreshEvents ==
    {"ProjectManager.onDidChangeTreeData", "FileBrowserProvider.onDidChangeTreeData",
     "ModuleListProvider.onDidChangeTreeData"}

\* some project's sourceFiles differ from what they were in pre
sourceFilesChanged(pre) ==
    \E i \in 1..Len(pre) : Projects[i].info.sourceFiles # pre[i].info.sourceFiles

-----------------------------------------------------------------------------
(* Claims about loading the projects *)

\* C18: a loadProjects that meets a missing or malformed info file still loads
\* every project whose file holds JSON, leaves the info of the others as it
\* was, does not throw, and leaves the flagged project in currentActiveProject.
C18_LoadProjectsTolerant ==
    last.op = "refreshProjects" =>
        /\ ~last.threw
        /\ \A i \in 1..Len(last.pre) :
              LET f == last.preDisk[last.pre[i].projectInfoPath]
              IN  Projects[i].info = IF f.kind = "json" THEN f.obj ELSE last.pre[i].info
        /\ \A i \in 1..Len(Projects) : Projects[i].active => currentActiveProject = i

-----------------------------------------------------------------------------
(* Claims about the contents of the lists *)

noDuplicates(seq) == \A i, j \in 1..Len(seq) : i # j => seq[i] # seq[j]

\* the constraints persisted for project i: those its info file lists
persistedConstraints(i) ==
    LET f == disk[Projects[i].projectInfoPath]
    IN  IF f.kind = "json" /\ "constraints" \in f.obj.keys THEN f.obj.constraints ELSE <<>>

\* the sourceFiles of project i hold only HDL files in its projectRoot, once each
sourceFilesValid(i) ==
    LET sourceFiles == Projects[i].info.sourceFiles
    IN  /\ \A f \in Range(sourceFiles) :
              IsUnder(f, Projects[i].projectRoot) /\ extname(f) \in {".v", ".vhd", ".sv"}
        /\ noDuplicates(sourceFiles)

\* the constraints of project i hold only .pcf and .sdc files in its
\* projectRoot, once each
constraintsValid(i) ==
    /\ \A c \in Range(persistedConstraints(i)) :
          IsUnder(c, Projects[i].projectRoot) /\ extname(c) \in {".pcf", ".sdc"}
    /\ noDuplicates(persistedConstraints(i))

\* C19: in every state reached by file events and constraint add/remove, each
\* project's sourceFiles holds only .v/.vhd/.sv paths under its projectRoot,
\* its constraints only .pcf/.sdc paths under its projectRoot, and neither
\* list holds a duplicate.
C19_ListsHoldOnlyProjectFiles ==
    \A i \in 1..Len(Projects) : sourceFilesValid(i) /\ constraintsValid(i)

-----------------------------------------------------------------------------
(* Claims about operations that find a resource missing *)

\* C20: a setAsTop run while no project is active leaves getTopModule() and
\* every info file as they were; a toggleProjectStatus run while no workspace
\* config is loaded changes no flag, fires no event and writes nothing.
C20_MissingResourceAborts ==
    /\ (last.op = "setAsTop" /\ noneActive(last.pre)) =>
            /\ topModule = last.preTop
            /\ disk = last.preDisk
    /\ (last.op = "toggle" /\ ~last.loaded) =>
            /\ workspaceConfig = <<>>
            /\ last.fired = {}
            /\ ewsFile = last.preEws

-----------------------------------------------------------------------------
(* Claims about malformed project info files *)

\* C21: an addConstraint or removeConstraint that finds malformed JSON in the
\* project info file leaves the in-memory constraints list as it was and
\* writes nothing.
C21_MalformedKeepsConstraints ==
    (last.op \in {"addConstraint", "removeConstraint"}
        /\ last.preDisk[prjInfoPath].kind = "malformed") =>
        /\ constraints = last.preConstraints
        /\ disk = last.preDisk

-----------------------------------------------------------------------------
(* Claims about the overlap set of the diagram webview *)

\* a drag is in progress: the test of the mousemove and mouseup handlers
dragInProgress == isDragging /\ draggingBlock # 0

\* the positions in blocks of the entries for element e
entriesOf(e) == {i \in 1..Len(blocks) : blocks[i].element = e}

\* C22: blocks holds exactly one entry, at the displayed position, for every
\* rendered block except the one being dragged while a drag is in progress,
\* and none for that one.
C22_BlocksMirrorsRendered ==
    \A e \in 1..Len(modulesData) :
        IF dragInProgress /\ e = draggingBlock
        THEN entriesOf(e) = {}
        ELSE /\ Cardinality(entriesOf(e)) = 1
             /\ \A i \in entriesOf(e) :
                    blocks[i].x = style[e].left /\ blocks[i].y = style[e].top

\* the overlap set as a set of entries
entries(bs) == {bs[i] : i \in 1..Len(bs)}

\* a press on a block followed at once by the release: the drag ends where it
\* started
releasedInPlace ==
    /\ last.op = "mousedown" /\ last.started
    /\ last'.op = "mouseup" /\ last'.element = last.element
    /\ last'.requested = originalPosition

\* C23: a drag that ends at its start position leaves the block where it was
\* and the overlap set as it was before the press: the entry the press removed
\* is back, with the same position and the same height.
C23_UnmovedDragIsIdentity ==
    [][releasedInPlace =>
          /\ style' = style
          /\ entries(blocks') = entries(blocks) \cup last.removed]_vars

\* the grid cells at which a block of height h lies within the canvas
canvasCells(h) ==
    {c \in [left : {i * gridSize : i \in 0..(clientWidth \div gridSize)},
            top : {i * gridSize : i \in 0..(clientHeight \div gridSize)}] :
        c.left + blockWidth <= clientWidth /\ c.top + h <= clientHeight}

\* C24: a findFreePosition that does not return a position (it can only fail
\* to terminate) happens only when no grid cell of the canvas is free of
\* overlap for the dragged block.
C24_FindFreePositionReturns ==
    (releasedElsewhere /\ ~last.returned) =>
        \A c \in canvasCells(heightOf(last.element)) :
            overlapsAnother(last.element, c.left, c.top)

-----------------------------------------------------------------------------
(* Claims about the diagram's placement and grid *)

\* where the claim puts the instance at (0-based) index i - 1
rowPosition(i) ==
    [left |-> snapToGrid(50 + (i - 1) * (250 + 50)), top |-> snapToGrid(50)]

\* C25: for every input list and every index, renderModules places the
\* instance at that index at x = snapToGrid(50 + index * (250 + 50)) and
\* y = snapToGrid(50): a single row in input order
C25_RenderPlacesInInputOrder ==
    last.op = "render" =>
        \A i \in 1..Len(modulesData) :
            /\ style[i] = rowPosition(i)
            /\ blocks[i].x = rowPosition(i).left
            /\ blocks[i].y = rowPosition(i).top

\* C26: after any sequence of loads, enables and disables at most one project
\* is flagged active, getActiveProject() returns that project when there is
\* one, and null when there is none
C26_OneActiveAndReported ==
    /\ Cardinality(flagged(Projects)) <= 1
    /\ \A i \in flagged(Projects) : getActiveProject = i
    /\ flagged(Projects) = {} => getActiveProject = 0

onGrid(v) == v % gridSize = 0

\* C27: after any sequence of renders, pointer moves and releases, the x and y
\* of every block, displayed and recorded in the overlap set, are integer
\* multiples of the grid size
C27_PositionsOnGrid ==
    /\ \A i \in DOMAIN style : onGrid(style[i].left) /\ onGrid(style[i].top)
    /\ \A i \in 1..Len(blocks) : onGrid(blocks[i].x) /\ onGrid(blocks[i].y)

\* a block dragged to a pointer position off the grid has been released and
\* recorded where the move snapped it
C27_Witness ==
    /\ last.op = "mouseup"
    /\ last.element # 0
    /\ last.requested.x = snapToGrid(-50)
    /\ \E i \in 1..Len(blocks) :
        blocks[i].element = last.element /\ blocks[i].x = last.requested.x

-----------------------------------------------------------------------------
(* Claims about the project browser's refresh timer *)

\* a file event reached FileBrowserProvider in this step
fileEventHandled == refreshTimeout' # refreshTimeout

\* C28: at most one refresh timer is pending at any time; each file event
\* cancels the pending timer and starts a new one; a burst of file events, each
\* arriving before the previous timer expires, produces exactly one tree
\* refresh, and that refresh comes after the last event of the burst
C28_OneRefreshPerBurst ==
    /\ [](Cardinality(timers) <= 1)
    /\ [][fileEventHandled =>
            /\ timers' = {refreshTimeout'}
            /\ refreshTimeout' \notin timers]_vars
    /\ [](burst.refreshes <= 1 /\ (burst.refreshes = 1 => timers = {}))
    /\ (timers # {}) ~> (timers = {} /\ burst.refreshes = 1)

\* a burst of several file events has ended with its refresh
C28_Witness ==
    /\ burst.events >= 2
    /\ burst.refreshes = 1
    /\ timers = {}
    /\ last.op = "refreshTimeout"

-----------------------------------------------------------------------------
(* Claims about the module cache and the active project *)

\* the callback that just ran replaced the cached hierarchy
cacheReplaced == last.op = "callback" /\ ~last.out.err /\ last.out.stdout.json

\* C29: once no parser invocation is in flight, the cached hierarchy and list
\* are those parsed for the currently active project: the result of a reload
\* issued for a previously active project does not remain in the cache once
\* the reload issued for the newly active project has completed too
C29_CacheIsOfActiveProject ==
    (cacheReplaced /\ inflight = <<>>) =>
        \A i \in flagged(Projects) :
            last.call.prjInfoPath = prjinfoOf(Projects[i].projectRoot)

-----------------------------------------------------------------------------
(* Claims about the project browser view *)

\* C30: populating the project tree view changes no field of workspaceConfig
\* or of any project, in particular no projectRoot, so that the owning project
\* of a later file event is the same with or without the view in between
C30_GetChildrenIsReadOnly ==
    last.op = "getChildren" =>
        /\ Projects = last.pre
        /\ \A f \in HDLFiles :
            selectedProject(Projects, f) = selectedProject(last.pre, f)

=============================================================================
